---- MODULE Spec2Model ----
(***************************************************************************)
(* Transaction admission of the CodeChain miner (core/src/miner/miner.rs): *)
(* worker threads call the MinerService operations of one Miner, whose     *)
(* transaction queue sits behind a read/write lock.  The chain client and  *)
(* the consensus engine are collaborators; the TransactionQueue itself     *)
(* (miner/transaction_queue.rs) is modelled from its documented contract.  *)
(***************************************************************************)
EXTENDS Integers, Sequences, FiniteSets, TLC

\* ------------------------------------------------------------------ bounds
MaxNonce == 1
MaxFee == 2
MaxBatch == 2
MaxLimit == 2
MaxBlock == 1
InitialBalance == 3
MaxList == 2
MaxArity == 4
MaxId == 6

Threads == {"t1", "t2"}
Senders == {"A", "B"}
Nonces == 0..MaxNonce
Fees == 1..MaxFee
NoThread == "none"

\* An UnverifiedTransaction.  Its content is its hash; flaw names the engine
\* verification step that rejects it ("none": every step accepts it).
GoodTransactions ==
    [sender : Senders, nonce : Nonces, fee : Fees, flaw : {"none"}]

FlawedTransactions ==
    [sender : {"A"}, nonce : {0}, fee : {MaxFee},
     flaw : {"basic", "unordered", "machine"}]

Transactions == GoodTransactions \cup FlawedTransactions

Range(s) == {s[i] : i \in DOMAIN s}

\* ------------------------------------------------- chain client (AccountData, BlockChain)
\* chain is the sequence of executed transactions, one per block.  Accounts start
\* at nonce 0 with InitialBalance; an executed transaction costs its fee.
transaction_block(chain, hash) == hash \in Range(chain)

latest_nonce(chain, address) ==
    Cardinality({i \in DOMAIN chain : chain[i].sender = address})

RECURSIVE SumFees(_, _)
SumFees(s, address) ==
    IF s = <<>> THEN 0
    ELSE (IF Head(s).sender = address THEN Head(s).fee ELSE 0) + SumFees(Tail(s), address)

latest_balance(chain, address) == InitialBalance - SumFees(chain, address)

best_block_number(chain) == Len(chain)

\* Mutant: the account as it was when the node started, not as the chain has it now.
FetchAccountCached(chain, address) == [nonce |-> 0, balance |-> InitialBalance]

fetch_account(chain, address) ==
    [nonce |-> latest_nonce(chain, address), balance |-> latest_balance(chain, address)]

\* ------------------------------------------------- TransactionQueue (from its contract)
\* A queue is [entries, limit, minimal_fee]; entries is kept in insertion order and
\* each entry is [tx, partition].
HeldNonces(entries, sender) ==
    {entries[i].tx.nonce : i \in {j \in DOMAIN entries : entries[j].tx.sender = sender}}

Executable(entries, sender, base, nonce) ==
    /\ nonce >= base
    /\ \A k \in base..(nonce - 1) : k \in HeldNonces(entries, sender)

\* Recompute one sender's pending/future partition against its account nonce.
Repartition(entries, sender, base) ==
    [i \in DOMAIN entries |->
        IF entries[i].tx.sender = sender
        THEN [entries[i] EXCEPT !.partition =
                 IF Executable(entries, sender, base, entries[i].tx.nonce)
                 THEN "Pending" ELSE "Future"]
        ELSE entries[i]]

RemoveAt(entries, i) ==
    SubSeq(entries, 1, i - 1) \o SubSeq(entries, i + 1, Len(entries))

\* Removing a sender's entry leaves a gap: its higher nonces are no longer executable.
Evict(entries, i) ==
    LET gone == entries[i].tx
        rest == RemoveAt(entries, i)
    IN  [j \in DOMAIN rest |->
            IF rest[j].tx.sender = gone.sender /\ rest[j].tx.nonce > gone.nonce
            THEN [rest[j] EXCEPT !.partition = "Future"]
            ELSE rest[j]]

\* Mutant: the oldest entry is the victim, whatever its fee.
VictimOldest(entries) ==
    CHOOSE i \in DOMAIN entries : \A j \in DOMAIN entries : i <= j

\* The eviction victim: lowest fee, ties broken by oldest insertion.
Victim(entries) ==
    CHOOSE i \in DOMAIN entries :
        \A j \in DOMAIN entries :
            \/ entries[i].tx.fee < entries[j].tx.fee
            \/ entries[i].tx.fee = entries[j].tx.fee /\ i <= j

\* Mutant: one eviction only, however far the queue is over its limit.
EnforceLimitOnce(entries, limit) ==
    IF Len(entries) <= limit THEN entries ELSE Evict(entries, Victim(entries))

RECURSIVE EnforceLimit(_, _)
EnforceLimit(entries, limit) ==
    IF Len(entries) <= limit THEN entries
    ELSE EnforceLimit(Evict(entries, Victim(entries)), limit)

RECURSIVE EnforceMinimalFee(_, _)
EnforceMinimalFee(entries, fee) ==
    LET below == {i \in DOMAIN entries : entries[i].tx.fee < fee}
    IN  IF below = {} THEN entries
        ELSE EnforceMinimalFee(Evict(entries, CHOOSE i \in below : \A j \in below : i <= j), fee)

HeldAt(entries, tx) ==
    {i \in DOMAIN entries :
        entries[i].tx.sender = tx.sender /\ entries[i].tx.nonce = tx.nonce}

PoolCost(entries, tx) ==
    SumFees([i \in DOMAIN entries |->
                IF i \in HeldAt(entries, tx)
                THEN [sender |-> tx.sender, fee |-> 0]
                ELSE entries[i].tx], tx.sender)

\* Mutant: an incoming transaction of equal fee replaces the held one.
TooCheapOnlyWhenLower(entries, tx) ==
    \E i \in HeldAt(entries, tx) : entries[i].tx.fee > tx.fee

\* An entry is held at (sender, nonce) with a fee >= the incoming fee.
TooCheapToReplace(entries, tx) ==
    \E i \in HeldAt(entries, tx) : entries[i].tx.fee >= tx.fee

QueueErr(queue, e) == [queue |-> queue, result |-> [ok |-> FALSE, value |-> e]]

\* TransactionQueue::add(transaction, origin, insertion_time, details_provider).
\* The rejections come in the order the contract lists them; the balance rule is
\* the cumulative one (the fees of the sender's other entries count against the
\* balance).  A fee under the floor is rejected so that no entry is ever below it.
\* An accepted transaction replaces the entry held at its (sender, nonce), the
\* sender is repartitioned against the nonce just fetched, and the limit enforced.
QueueAdd(queue, tx, origin, insertion_time, details) ==
    LET entries == queue.entries
        held == HeldAt(entries, tx)
    IN  IF TooCheapToReplace(entries, tx)
        THEN QueueErr(queue, "TooCheapToReplace")
        ELSE IF /\ Len(entries) >= queue.limit
                /\ (entries = <<>> \/ tx.fee <= entries[Victim(entries)].tx.fee)
        THEN QueueErr(queue, "LimitReached")
        ELSE IF PoolCost(entries, tx) + tx.fee > details.balance
        THEN QueueErr(queue, "InsufficientBalance")
        ELSE IF tx.fee < queue.minimal_fee
        THEN QueueErr(queue, "InsufficientFee")
        ELSE LET kept == IF held = {} THEN entries
                         ELSE RemoveAt(entries, CHOOSE i \in held : TRUE)
                 added == Append(kept, [tx |-> tx, partition |-> "Future"])
                 parted == Repartition(added, tx.sender, details.nonce)
                 final == EnforceLimit(parted, queue.limit)
                 mine == {i \in DOMAIN final : final[i].tx = tx}
             IN  [queue |-> [queue EXCEPT !.entries = final],
                  result |-> [ok |-> TRUE,
                              value |-> IF \E i \in mine : final[i].partition = "Pending"
                                        THEN "Current" ELSE "Future"]]

\* TransactionQueue::set_limit
QueueSetLimit(queue, limit) ==
    [queue EXCEPT !.limit = limit, !.entries = EnforceLimit(queue.entries, limit)]

\* Mutant: the floor is stored and the entries are left alone.
QueueSetFloorOnly(queue, fee) == [queue EXCEPT !.minimal_fee = fee]

\* TransactionQueue::set_minimal_fee
QueueSetMinimalFee(queue, fee) ==
    [queue EXCEPT !.minimal_fee = fee, !.entries = EnforceMinimalFee(queue.entries, fee)]

\* Priority order: fee descending, ties by ascending insertion order.
Outranks(entries, i, j) ==
    \/ entries[i].tx.fee > entries[j].tx.fee
    \/ entries[i].tx.fee = entries[j].tx.fee /\ i < j

RECURSIVE ByPriority(_, _)
ByPriority(entries, left) ==
    IF left = {} THEN <<>>
    ELSE LET best == CHOOSE i \in left : \A j \in left : i = j \/ Outranks(entries, i, j)
         IN  <<entries[best].tx>> \o ByPriority(entries, left \ {best})

\* Mutant: the pending entries by priority alone.
TopByPriorityOnly(entries, left) == ByPriority(entries, left)

\* TransactionQueue::top_transactions: the Pending entries by priority, a sender's
\* entry being yielded only once its lower pending nonces have been yielded.
RECURSIVE TopFrom(_, _)
TopFrom(entries, left) ==
    LET ready == {i \in left :
                    \A j \in left :
                        entries[j].tx.sender = entries[i].tx.sender
                            => entries[j].tx.nonce >= entries[i].tx.nonce}
    IN  IF left = {} THEN <<>>
        ELSE LET best == CHOOSE i \in ready : \A j \in ready : i = j \/ Outranks(entries, i, j)
             IN  <<entries[best].tx>> \o TopFrom(entries, left \ {best})

QueueTopTransactions(queue) ==
    TopFrom(queue.entries,
            {i \in DOMAIN queue.entries : queue.entries[i].partition = "Pending"})

\* TransactionQueue::future_transactions
QueueFutureTransactions(queue) ==
    ByPriority(queue.entries,
               {i \in DOMAIN queue.entries : queue.entries[i].partition = "Future"})

\* TransactionQueue::status
QueueStatus(queue) ==
    [pending |-> Cardinality({i \in DOMAIN queue.entries : queue.entries[i].partition = "Pending"}),
     future |-> Cardinality({i \in DOMAIN queue.entries : queue.entries[i].partition = "Future"})]

\* ------------------------------------------------- consensus engine
AllCalls ==
    <<"transaction_block", "verify_transaction_basic", "verify_transaction_unordered",
      "machine_verify_transaction", "fetch_account", "queue_add">>

\* Mutant: the already-imported check is missing.
VerifyWithoutChainCheck(tx, header, chain) ==
    IF tx.flaw = "basic"
    THEN [ok |-> FALSE, value |-> "BasicVerificationFailed", calls |-> SubSeq(AllCalls, 2, 2)]
    ELSE IF tx.flaw = "unordered"
    THEN [ok |-> FALSE, value |-> "InvalidSignature", calls |-> SubSeq(AllCalls, 2, 3)]
    ELSE IF tx.flaw = "machine"
    THEN [ok |-> FALSE, value |-> "MachineVerificationFailed", calls |-> SubSeq(AllCalls, 2, 4)]
    ELSE [ok |-> TRUE, value |-> "Verified", calls |-> SubSeq(AllCalls, 2, 4)]

\* Mutant: the machine verification's error is dropped instead of returned.
VerifyIgnoringMachineError(tx, header, chain) ==
    IF transaction_block(chain, tx)
    THEN [ok |-> FALSE, value |-> "AlreadyImported", calls |-> SubSeq(AllCalls, 1, 1)]
    ELSE IF tx.flaw = "basic"
    THEN [ok |-> FALSE, value |-> "BasicVerificationFailed", calls |-> SubSeq(AllCalls, 1, 2)]
    ELSE IF tx.flaw = "unordered"
    THEN [ok |-> FALSE, value |-> "InvalidSignature", calls |-> SubSeq(AllCalls, 1, 3)]
    ELSE [ok |-> TRUE, value |-> "Verified", calls |-> SubSeq(AllCalls, 1, 4)]

\* The closure of add_transactions_to_queue up to the machine verification: the
\* already-imported check, then the engine's steps, each only after the previous
\* one passed.  calls lists the collaborator calls made, in order.
VerifyTransaction(tx, header, chain) ==
    IF transaction_block(chain, tx)
    THEN [ok |-> FALSE, value |-> "AlreadyImported", calls |-> SubSeq(AllCalls, 1, 1)]
    ELSE IF tx.flaw = "basic"
    THEN [ok |-> FALSE, value |-> "BasicVerificationFailed", calls |-> SubSeq(AllCalls, 1, 2)]
    ELSE IF tx.flaw = "unordered"
    THEN [ok |-> FALSE, value |-> "InvalidSignature", calls |-> SubSeq(AllCalls, 1, 3)]
    ELSE IF tx.flaw = "machine"
    THEN [ok |-> FALSE, value |-> "MachineVerificationFailed", calls |-> SubSeq(AllCalls, 1, 4)]
    ELSE [ok |-> TRUE, value |-> "Verified", calls |-> SubSeq(AllCalls, 1, 4)]

\* ------------------------------------------------------------------ state
VARIABLES
    chain,              \* the client's chain: executed transactions, one per block
    transaction_queue,  \* Miner.transaction_queue (the value behind the RwLock)
    queue_lock,         \* the RwLock itself: [writer, readers]
    pc,                 \* each thread's position in the operation it runs
    batch_len,          \* add_transactions_to_queue: transactions.len()
    transactions,       \* the transactions the batch's iterator has yielded so far
    default_origin,     \* add_transactions_to_queue: default_origin
    best_block_header,  \* add_transactions_to_queue: the decoded best block header
    insertion_time,     \* add_transactions_to_queue: insertion_time
    calls,              \* collaborator calls made so far for the current transaction
    inserted,           \* add_transactions_to_queue: inserted
    results,            \* add_transactions_to_queue: the results collected so far
    import,             \* import_own_transaction: import
    ret,                \* the value a read-only query has computed under its guard
    author,             \* Miner.author (the value behind its RwLock)
    extra_data,         \* Miner.extra_data (the value behind its RwLock)
    author_lock,        \* the RwLock of Miner.author: [writer, readers]
    extra_data_lock,    \* the RwLock of Miner.extra_data: [writer, readers]
    engine_signer,      \* the signer the consensus engine holds
    seals_internally,   \* what the consensus engine answers to seals_internally()
    sent,               \* sync: the message handed to the encoder
    wire,               \* sync: the RLP item on the wire
    received            \* sync: what the decoder returned for the item

identity ==
    <<author, extra_data, author_lock, extra_data_lock, engine_signer, seals_internally>>

codec == <<sent, wire, received>>

vars ==
    <<chain, transaction_queue, queue_lock, pc, batch_len, transactions, default_origin,
      best_block_header, insertion_time, calls, inserted, results, import, ret,
      author, extra_data, author_lock, extra_data_lock, engine_signer, seals_internally,
      sent, wire, received>>

locals ==
    <<batch_len, transactions, default_origin, best_block_header, insertion_time, calls, inserted,
      results, import>>

NoValue == [kind |-> "none"]

\* No address: the author and the signer before any is set.
NoAddress == "none"

FreeLock == [writer |-> NoThread, readers |-> {}]

\* The miner as constructed: empty queue, nothing running, no identity set; no sync
\* message in flight.
InitMiner ==
    /\ chain = <<>>
    /\ transaction_queue \in
          [entries : {<<>>}, limit : 0..MaxLimit, minimal_fee : 0..MaxFee]
    /\ queue_lock = [writer |-> NoThread, readers |-> {}]
    /\ pc = [t \in Threads |-> "idle"]
    /\ batch_len = [t \in Threads |-> 0]
    /\ transactions = [t \in Threads |-> <<>>]
    /\ default_origin = [t \in Threads |-> "External"]
    /\ best_block_header = [t \in Threads |-> 0]
    /\ insertion_time = [t \in Threads |-> 0]
    /\ calls = [t \in Threads |-> <<>>]
    /\ inserted = [t \in Threads |-> <<>>]
    /\ results = [t \in Threads |-> <<>>]
    /\ import = [t \in Threads |-> NoValue]
    /\ ret = [t \in Threads |-> NoValue]
    /\ author = NoAddress
    /\ extra_data = <<>>
    /\ author_lock = FreeLock
    /\ extra_data_lock = FreeLock
    /\ engine_signer = NoAddress
    /\ sent = NoValue
    /\ wire = NoValue
    /\ received = NoValue

\* The transaction queue's operations never consult seals_internally: they are
\* explored over an engine that does not answer it.
Init == InitMiner /\ seals_internally = "None"

\* ------------------------------------------------------------------ RwLock
\* Mutant: a writer is admitted while another writer holds the lock.
CanWriteBesideWriter(t) == queue_lock.readers = {}

\* RwLock::write: granted when no thread holds the lock in either mode.
CanWrite(t) == queue_lock.writer = NoThread /\ queue_lock.readers = {}

\* Mutant: a reader is admitted while a writer holds the lock.
CanReadBesideWriter(t) == TRUE

\* RwLock::read: granted when no writer holds the lock.
CanRead(t) == queue_lock.writer = NoThread

\* A thread is at the point of taking the queue's lock: it has just called the
\* operation, or it called it earlier and has been blocked in write()/read() since.
AtCall(t, blocked) == pc[t] = "idle" \/ pc[t] = blocked

\* ------------------------------------------------------------------ admission
\* The write guard is taken and add_transactions_to_queue starts: the best block
\* header and the insertion time are read once, before the first transaction.
\* The batch is a vector of len transactions; the model draws each of them when the
\* batch's iterator yields it.
StartImport(t, len, origin) ==
    /\ AtCall(t, "wait_write")
    /\ CanWrite(t)
    /\ queue_lock' = [queue_lock EXCEPT !.writer = t]
    /\ batch_len' = [batch_len EXCEPT ![t] = len]
    /\ transactions' = [transactions EXCEPT ![t] = <<>>]
    /\ default_origin' = [default_origin EXCEPT ![t] = origin]
    /\ best_block_header' = [best_block_header EXCEPT ![t] = best_block_number(chain)]
    /\ insertion_time' = [insertion_time EXCEPT ![t] = best_block_number(chain)]
    /\ results' = [results EXCEPT ![t] = <<>>]
    /\ inserted' = [inserted EXCEPT ![t] = <<>>]
    /\ calls' = [calls EXCEPT ![t] = <<>>]
    /\ pc' = [pc EXCEPT ![t] = IF len = 0 THEN "collected" ELSE "verify"]
    /\ UNCHANGED <<identity, codec, chain, transaction_queue, import, ret>>

import_external_transactions(t, len) == StartImport(t, len, "External")

\* Mutant: import_own_transaction submits an empty vector.
ImportOwnNothing(t) == StartImport(t, 0, "Local")

\* import_own_transaction submits vec![transaction.into()].
import_own_transaction(t) == StartImport(t, 1, "Local")

\* A SignedTransaction carries a signature that was already recovered.
SignedTransactions == {tx \in Transactions : tx.flaw # "unordered"}

\* Mutant: results are pushed to the front.
CollectReversed(collected, result) == <<result>> \o collected

\* map(..).collect(): each closure result is pushed to the vector, in input order.
Collect(collected, result) == Append(collected, result)

\* Mutant: the first error ends the batch.
AfterResultStopOnError(t, collected) ==
    IF Len(collected) = batch_len[t] \/ ~collected[Len(collected)].ok
    THEN "collected" ELSE "verify"

\* Where the map over the batch goes once a transaction's result is collected.
AfterResult(t, collected) ==
    IF Len(collected) = batch_len[t] THEN "collected" ELSE "verify"

\* The closure's validation of the next transaction (miner.rs 55-70).
VerifyStep(t, tx) ==
    /\ pc[t] = "verify"
    /\ default_origin[t] = "Local" => tx \in SignedTransactions
    /\ transactions' = [transactions EXCEPT ![t] = Append(@, tx)]
    /\ LET v == VerifyTransaction(tx, best_block_header[t], chain)
       IN  IF v.ok
           THEN /\ calls' = [calls EXCEPT ![t] = v.calls]
                /\ pc' = [pc EXCEPT ![t] = "add"]
                /\ UNCHANGED results
           ELSE LET collected == Collect(results[t],
                                   [hash |-> tx, ok |-> FALSE, value |-> v.value,
                                    header |-> best_block_header[t], calls |-> v.calls])
                IN  /\ results' = [results EXCEPT ![t] = collected]
                    /\ calls' = [calls EXCEPT ![t] = <<>>]
                    /\ pc' = [pc EXCEPT ![t] = AfterResult(t, collected)]
    /\ UNCHANGED <<identity, codec, chain, transaction_queue, queue_lock, batch_len, default_origin,
                   best_block_header, insertion_time, inserted, import, ret>>

\* The closure's admission of a verified transaction (miner.rs 72-79).
AddStep(t) ==
    /\ pc[t] = "add"
    /\ LET tx == transactions[t][Len(transactions[t])]
           details == fetch_account(chain, tx.sender)
           r == QueueAdd(transaction_queue, tx, default_origin[t], insertion_time[t], details)
           collected == Collect(results[t],
                           [hash |-> tx, ok |-> r.result.ok, value |-> r.result.value,
                            header |-> best_block_header[t],
                            origin |-> default_origin[t], time |-> insertion_time[t],
                            calls |-> calls[t] \o SubSeq(AllCalls, 5, 6)])
       IN  /\ transaction_queue' = r.queue
           /\ results' = [results EXCEPT ![t] = collected]
           /\ inserted' = [inserted EXCEPT ![t] =
                              IF r.result.ok THEN Append(@, tx) ELSE @]
           /\ calls' = [calls EXCEPT ![t] = <<>>]
           /\ pc' = [pc EXCEPT ![t] = AfterResult(t, collected)]
    /\ UNCHANGED <<identity, codec, chain, queue_lock, batch_len, transactions, default_origin,
                   best_block_header, insertion_time, import, ret>>

ClearLocals(t) ==
    /\ batch_len' = [batch_len EXCEPT ![t] = 0]
    /\ transactions' = [transactions EXCEPT ![t] = <<>>]
    /\ default_origin' = [default_origin EXCEPT ![t] = "External"]
    /\ best_block_header' = [best_block_header EXCEPT ![t] = 0]
    /\ insertion_time' = [insertion_time EXCEPT ![t] = 0]
    /\ calls' = [calls EXCEPT ![t] = <<>>]
    /\ inserted' = [inserted EXCEPT ![t] = <<>>]
    /\ results' = [results EXCEPT ![t] = <<>>]
    /\ import' = [import EXCEPT ![t] = NoValue]

\* import_external_transactions returns the collected results; its guard drops.
ReturnExternal(t) ==
    /\ pc[t] = "collected"
    /\ default_origin[t] = "External"
    /\ queue_lock' = [queue_lock EXCEPT !.writer = NoThread]
    /\ pc' = [pc EXCEPT ![t] = "idle"]
    /\ ClearLocals(t)
    /\ UNCHANGED <<identity, codec, chain, transaction_queue, ret>>

\* import_own_transaction pops the single result (miner.rs 165-166); an empty
\* vector would panic.
PopOwn(t) ==
    /\ pc[t] = "collected"
    /\ default_origin[t] = "Local"
    /\ IF results[t] = <<>>
       THEN /\ pc' = [pc EXCEPT ![t] = "panicked"]
            /\ queue_lock' = [queue_lock EXCEPT !.writer = NoThread]
            /\ UNCHANGED import
       ELSE /\ import' = [import EXCEPT ![t] =
                             [kind |-> "result",
                              ok |-> results[t][Len(results[t])].ok,
                              value |-> results[t][Len(results[t])].value]]
            /\ pc' = [pc EXCEPT ![t] = "own_done"]
            /\ UNCHANGED queue_lock
    /\ UNCHANGED <<identity, codec, chain, transaction_queue, batch_len, transactions, default_origin,
                   best_block_header, insertion_time, calls, inserted, results, ret>>

\* Mutant: the status is read by a call of status(), which takes the read lock.
ReturnOwnThroughStatus(t) ==
    /\ pc[t] = "own_done"
    /\ CanRead(t)
    /\ queue_lock' = [queue_lock EXCEPT !.writer = NoThread]
    /\ pc' = [pc EXCEPT ![t] = "idle"]
    /\ ClearLocals(t)
    /\ UNCHANGED <<identity, codec, chain, transaction_queue, ret>>

\* import_own_transaction traces the status through its guard and returns import.
ReturnOwn(t) ==
    /\ pc[t] = "own_done"
    /\ queue_lock' = [queue_lock EXCEPT !.writer = NoThread]
    /\ pc' = [pc EXCEPT ![t] = "idle"]
    /\ ClearLocals(t)
    /\ UNCHANGED <<identity, codec, chain, transaction_queue, ret>>

\* ------------------------------------------------------------------ configuration
set_minimal_fee(t, min_fee) ==
    /\ AtCall(t, "wait_write")
    /\ CanWrite(t)
    /\ transaction_queue' = QueueSetMinimalFee(transaction_queue, min_fee)
    /\ pc' = [pc EXCEPT ![t] = "idle"]
    /\ UNCHANGED <<identity, codec, chain, queue_lock, locals, ret>>

set_transactions_limit(t, limit) ==
    /\ AtCall(t, "wait_write")
    /\ CanWrite(t)
    /\ transaction_queue' = QueueSetLimit(transaction_queue, limit)
    /\ pc' = [pc EXCEPT ![t] = "idle"]
    /\ UNCHANGED <<identity, codec, chain, queue_lock, locals, ret>>

\* ------------------------------------------------------------------ queries
\* self.transaction_queue.read().<query>(): the read guard is taken and the query
\* evaluated under it.
Query(t, op, value) ==
    /\ AtCall(t, "wait_read")
    /\ CanRead(t)
    /\ queue_lock' = [queue_lock EXCEPT !.readers = @ \cup {t}]
    /\ ret' = [ret EXCEPT ![t] = [kind |-> op, value |-> value]]
    /\ pc' = [pc EXCEPT ![t] = "read_done"]
    /\ UNCHANGED <<identity, codec, chain, transaction_queue, locals>>

\* What each query returns, under the name of its type.
QueryValue(op, queue) ==
    CASE op = "status" ->
            [MinerStatus |->
                [transactions_in_pending_queue |-> QueueStatus(queue).pending,
                 transactions_in_future_queue |-> QueueStatus(queue).future,
                 transactions_in_pending_block |-> 0]]
      [] op = "minimal_fee" -> [U256 |-> queue.minimal_fee]
      [] op = "transactions_limit" -> [usize |-> queue.limit]
      [] op = "ready_transactions" -> [Ready |-> QueueTopTransactions(queue)]
      [] op = "future_transactions" -> [Future |-> QueueFutureTransactions(queue)]

status(t) == Query(t, "status", QueryValue("status", transaction_queue))

minimal_fee(t) == Query(t, "minimal_fee", QueryValue("minimal_fee", transaction_queue))

transactions_limit(t) ==
    Query(t, "transactions_limit", QueryValue("transactions_limit", transaction_queue))

ready_transactions(t) ==
    Query(t, "ready_transactions", QueryValue("ready_transactions", transaction_queue))

future_transactions(t) ==
    Query(t, "future_transactions", QueryValue("future_transactions", transaction_queue))

\* The temporary read guard drops at the end of the statement.
ReleaseRead(t) ==
    /\ pc[t] = "read_done"
    /\ queue_lock' = [queue_lock EXCEPT !.readers = @ \ {t}]
    /\ ret' = [ret EXCEPT ![t] = NoValue]
    /\ pc' = [pc EXCEPT ![t] = "idle"]
    /\ UNCHANGED <<identity, codec, chain, transaction_queue, locals>>

\* ------------------------------------------------------------------ identity
\* Everything of the miner but its identity cells and the thread positions.
poolstate == <<chain, transaction_queue, queue_lock, locals>>

engine == <<engine_signer, seals_internally>>

\* The byte strings given to set_extra_data.
ExtraDatas == {<<>>, <<1>>}

\* The answers of Engine::seals_internally, an Option<bool>.
SealsInternally == {"None", "Some(true)", "Some(false)"}

\* Mutant: reading a cell also waits for the queue's writer.
CanReadCellBehindQueue(lock) == lock.writer = NoThread /\ queue_lock.writer = NoThread

\* RwLock::read on a cell's own lock.
CanReadCell(lock) == lock.writer = NoThread

\* RwLock::write on a cell's own lock.
CanWriteCell(lock) == lock.writer = NoThread /\ lock.readers = {}

\* *self.author.read()
read_author(t) ==
    /\ pc[t] = "idle"
    /\ CanReadCell(author_lock)
    /\ author_lock' = [author_lock EXCEPT !.readers = @ \cup {t}]
    /\ ret' = [ret EXCEPT ![t] = [kind |-> "author", value |-> [Address |-> author]]]
    /\ pc' = [pc EXCEPT ![t] = "author_read"]
    /\ UNCHANGED <<poolstate, codec, author, extra_data, extra_data_lock, engine>>

\* *self.author.write() = author
set_author(t, address) ==
    /\ pc[t] = "idle"
    /\ CanWriteCell(author_lock)
    /\ author_lock' = [author_lock EXCEPT !.writer = t]
    /\ author' = address
    /\ pc' = [pc EXCEPT ![t] = "author_write"]
    /\ UNCHANGED <<poolstate, codec, ret, extra_data, extra_data_lock, engine>>

\* self.extra_data.read().clone()
read_extra_data(t) ==
    /\ pc[t] = "idle"
    /\ CanReadCell(extra_data_lock)
    /\ extra_data_lock' = [extra_data_lock EXCEPT !.readers = @ \cup {t}]
    /\ ret' = [ret EXCEPT ![t] = [kind |-> "extra_data", value |-> [Bytes |-> extra_data]]]
    /\ pc' = [pc EXCEPT ![t] = "extra_data_read"]
    /\ UNCHANGED <<poolstate, codec, author, extra_data, author_lock, engine>>

\* *self.extra_data.write() = extra_data
set_extra_data(t, bytes) ==
    /\ pc[t] = "idle"
    /\ CanWriteCell(extra_data_lock)
    /\ extra_data_lock' = [extra_data_lock EXCEPT !.writer = t]
    /\ extra_data' = bytes
    /\ pc' = [pc EXCEPT ![t] = "extra_data_write"]
    /\ UNCHANGED <<poolstate, codec, ret, author, author_lock, engine>>

CellPositions == {"author_read", "author_write", "extra_data_read", "extra_data_write"}

\* The cell's temporary guard drops at the end of the statement and the call returns.
ReleaseCell(t) ==
    /\ pc[t] \in CellPositions
    /\ author_lock' =
          IF pc[t] = "author_read" THEN [author_lock EXCEPT !.readers = @ \ {t}]
          ELSE IF pc[t] = "author_write" THEN [author_lock EXCEPT !.writer = NoThread]
          ELSE author_lock
    /\ extra_data_lock' =
          IF pc[t] = "extra_data_read" THEN [extra_data_lock EXCEPT !.readers = @ \ {t}]
          ELSE IF pc[t] = "extra_data_write" THEN [extra_data_lock EXCEPT !.writer = NoThread]
          ELSE extra_data_lock
    /\ ret' = [ret EXCEPT ![t] = NoValue]
    /\ pc' = [pc EXCEPT ![t] = "idle"]
    /\ UNCHANGED <<poolstate, codec, author, extra_data, engine>>

\* Option::is_some
is_some(option) == option # "None"

\* set_engine_signer: the signer is handed to the engine when seals_internally()
\* is Some(_), whatever the boolean.
set_engine_signer(t, address) ==
    /\ pc[t] = "idle"
    /\ engine_signer' = IF is_some(seals_internally) THEN address ELSE engine_signer
    /\ UNCHANGED <<poolstate, codec, pc, ret, author, extra_data, author_lock,
                   extra_data_lock, seals_internally>>

\* ------------------------------------------------------------------ the chain
\* A block executing one transaction of the account's next nonce is committed.
CommitBlock(tx) ==
    /\ Len(chain) < MaxBlock
    /\ tx.nonce = latest_nonce(chain, tx.sender)
    /\ tx.fee <= latest_balance(chain, tx.sender)
    /\ chain' = Append(chain, tx)
    /\ UNCHANGED <<identity, codec, transaction_queue, queue_lock, pc, locals, ret>>

Next ==
    \/ \E t \in Threads, len \in 0..MaxBatch : import_external_transactions(t, len)
    \/ \E t \in Threads : import_own_transaction(t)
    \/ \E t \in Threads, tx \in Transactions : VerifyStep(t, tx)
    \/ \E t \in Threads : AddStep(t)
    \/ \E t \in Threads : ReturnExternal(t)
    \/ \E t \in Threads : PopOwn(t)
    \/ \E t \in Threads : ReturnOwn(t)
    \/ \E t \in Threads, fee \in 0..MaxFee : set_minimal_fee(t, fee)
    \/ \E t \in Threads, limit \in 0..MaxLimit : set_transactions_limit(t, limit)
    \/ \E t \in Threads : status(t)
    \/ \E t \in Threads : minimal_fee(t)
    \/ \E t \in Threads : transactions_limit(t)
    \/ \E t \in Threads : ready_transactions(t)
    \/ \E t \in Threads : future_transactions(t)
    \/ \E t \in Threads : ReleaseRead(t)
    \/ \E tx \in GoodTransactions : CommitBlock(tx)

Spec == Init /\ [][Next]_vars

\* The transactions submitted while the identity operations are exercised.
IdentityTransactions == {tx \in GoodTransactions : tx.sender = "A" /\ tx.nonce = 0}

\* Every operation of MinerService, the identity ones included, over few transactions.
NextIdentity ==
    \/ \E t \in Threads, len \in 0..MaxBatch : import_external_transactions(t, len)
    \/ \E t \in Threads : import_own_transaction(t)
    \/ \E t \in Threads, tx \in IdentityTransactions : VerifyStep(t, tx)
    \/ \E t \in Threads : AddStep(t)
    \/ \E t \in Threads : ReturnExternal(t)
    \/ \E t \in Threads : PopOwn(t)
    \/ \E t \in Threads : ReturnOwn(t)
    \/ \E t \in Threads, fee \in 0..MaxFee : set_minimal_fee(t, fee)
    \/ \E t \in Threads, limit \in 0..MaxLimit : set_transactions_limit(t, limit)
    \/ \E t \in Threads : status(t)
    \/ \E t \in Threads : minimal_fee(t)
    \/ \E t \in Threads : transactions_limit(t)
    \/ \E t \in Threads : ready_transactions(t)
    \/ \E t \in Threads : future_transactions(t)
    \/ \E t \in Threads : ReleaseRead(t)
    \/ \E t \in Threads : read_author(t)
    \/ \E t \in Threads, address \in Senders : set_author(t, address)
    \/ \E t \in Threads : read_extra_data(t)
    \/ \E t \in Threads, bytes \in ExtraDatas : set_extra_data(t, bytes)
    \/ \E t \in Threads : ReleaseCell(t)
    \/ \E t \in Threads, address \in Senders : set_engine_signer(t, address)

\* The miner as constructed over an engine of any kind.
InitIdentity == InitMiner /\ seals_internally \in SealsInternally

SpecIdentity == InitIdentity /\ [][NextIdentity]_vars

\* ------------------------------------------------------------------ blocking calls
\* A thread calls an operation that takes the queue's write lock (import_external,
\* import_own, set_minimal_fee, set_transactions_limit) and blocks in write().
CallWrite(t) ==
    /\ pc[t] = "idle"
    /\ pc' = [pc EXCEPT ![t] = "wait_write"]
    /\ UNCHANGED <<poolstate, ret, identity, codec>>

\* A thread calls a query and blocks in read().
CallRead(t) ==
    /\ pc[t] = "idle"
    /\ pc' = [pc EXCEPT ![t] = "wait_read"]
    /\ UNCHANGED <<poolstate, ret, identity, codec>>

Blocked(t) == pc[t] \in {"wait_write", "wait_read"}

\* The transactions submitted while the blocking calls are exercised.
BlockingTransactions == {tx \in Transactions : tx.sender = "A" /\ tx.nonce = 0}

\* A blocked thread is granted the lock and enters its operation.
Acquire(t) ==
    /\ Blocked(t)
    /\ \/ \E len \in 0..MaxBatch : import_external_transactions(t, len)
       \/ import_own_transaction(t)
       \/ \E fee \in 0..MaxFee : set_minimal_fee(t, fee)
       \/ \E limit \in 0..MaxLimit : set_transactions_limit(t, limit)
       \/ status(t)
       \/ minimal_fee(t)
       \/ transactions_limit(t)
       \/ ready_transactions(t)
       \/ future_transactions(t)

\* A thread inside an operation takes its next step: a collaborator's call returns,
\* or the operation returns.
Proceed(t) ==
    \/ \E tx \in BlockingTransactions : VerifyStep(t, tx)
    \/ AddStep(t)
    \/ ReturnExternal(t)
    \/ PopOwn(t)
    \/ ReturnOwn(t)
    \/ ReleaseRead(t)

NextBlocking ==
    \/ \E t \in Threads : CallWrite(t)
    \/ \E t \in Threads : CallRead(t)
    \/ \E t \in Threads : Acquire(t)
    \/ \E t \in Threads : Proceed(t)

\* The collaborators' calls return (a running operation keeps stepping) and the
\* lock is fair (a thread blocked on a lock that is free again and again gets it).
Fairness ==
    \A t \in Threads : WF_vars(Proceed(t)) /\ SF_vars(Acquire(t))

SpecBlocking == Init /\ [][NextBlocking]_vars /\ Fairness

\* ------------------------------------------------------------------ sync messages
\* block/message.rs writes and reads messages through the rlp crate.  An RLP item
\* is a byte string or a list of items.
Data(bytes) == [list |-> FALSE, bytes |-> bytes, items |-> <<>>]

List(items) == [list |-> TRUE, bytes |-> <<>>, items |-> items]

\* An unsigned integer is written big-endian without leading zero bytes.
RECURSIVE ToBytes(_)
ToBytes(n) == IF n = 0 THEN <<>> ELSE ToBytes(n \div 256) \o <<n % 256>>

RECURSIVE FromBytes(_)
FromBytes(b) ==
    IF b = <<>> THEN 0 ELSE 256 * FromBytes(SubSeq(b, 1, Len(b) - 1)) + b[Len(b)]

Ok(v) == [ok |-> TRUE, value |-> v]

Err(e) == [ok |-> FALSE, value |-> e]

\* Decoding an unsigned integer of width bytes (u8: 1, u64: 8, U256: 32).
DecodeUint(item, width) ==
    IF item.list THEN Err("RlpExpectedToBeData")
    ELSE IF item.bytes # <<>> /\ item.bytes[1] = 0 THEN Err("RlpInvalidIndirection")
    ELSE IF Len(item.bytes) > width THEN Err("RlpIsTooBig")
    ELSE Ok(FromBytes(item.bytes))

\* An H256 is a string of exactly 32 bytes.
DecodeH256(item) ==
    IF item.list THEN Err("RlpExpectedToBeData")
    ELSE IF Len(item.bytes) < 32 THEN Err("RlpIsTooShort")
    ELSE IF Len(item.bytes) > 32 THEN Err("RlpIsTooBig")
    ELSE Ok(item.bytes)

\* A Header or an UnverifiedTransaction is written as a list of its own; the model
\* keeps one numeric field of it.
EncodeElement(v) == List(<<Data(ToBytes(v))>>)

DecodeElement(item) ==
    IF ~item.list THEN Err("RlpExpectedToBeList")
    ELSE IF Len(item.items) # 1 THEN Err("RlpIncorrectListLen")
    ELSE DecodeUint(item.items[1], 8)

\* UntrustedRlp::as_list and the loop over a list's items: each is the sequence of
\* the items' decodings; all the values, or the first error.
AsList(item, each) ==
    IF ~item.list THEN Err("RlpExpectedToBeList")
    ELSE LET bad == {i \in DOMAIN each : ~each[i].ok}
         IN  IF bad # {}
             THEN each[CHOOSE i \in bad : \A j \in bad : i <= j]
             ELSE Ok([i \in DOMAIN each |-> each[i].value])

MESSAGE_ID_STATUS == 1
MESSAGE_ID_REQUEST_HEADERS == 2
MESSAGE_ID_HEADERS == 3
MESSAGE_ID_REQUEST_BODIES == 4
MESSAGE_ID_BODIES == 5

MessageId(m) ==
    CASE m.kind = "Status" -> MESSAGE_ID_STATUS
      [] m.kind = "RequestHeaders" -> MESSAGE_ID_REQUEST_HEADERS
      [] m.kind = "Headers" -> MESSAGE_ID_HEADERS
      [] m.kind = "RequestBodies" -> MESSAGE_ID_REQUEST_BODIES
      [] m.kind = "Bodies" -> MESSAGE_ID_BODIES

\* Mutant: every body is written as an empty list.
EncodeBodyFlat(m) ==
    CASE m.kind = "Status" ->
            List(<<Data(ToBytes(m.total_score)), Data(m.best_hash), Data(m.genesis_hash)>>)
      [] m.kind = "RequestHeaders" ->
            List(<<Data(ToBytes(m.start_number)), Data(ToBytes(m.max_count))>>)
      [] m.kind = "Headers" ->
            List([i \in DOMAIN m.headers |-> EncodeElement(m.headers[i])])
      [] m.kind = "RequestBodies" ->
            List([i \in DOMAIN m.hashes |-> Data(m.hashes[i])])
      [] m.kind = "Bodies" ->
            List([i \in DOMAIN m.bodies |-> List(<<>>)])

\* The second item of rlp_append: the body.
EncodeBody(m) ==
    CASE m.kind = "Status" ->
            List(<<Data(ToBytes(m.total_score)), Data(m.best_hash), Data(m.genesis_hash)>>)
      [] m.kind = "RequestHeaders" ->
            List(<<Data(ToBytes(m.start_number)), Data(ToBytes(m.max_count))>>)
      [] m.kind = "Headers" ->
            List([i \in DOMAIN m.headers |-> EncodeElement(m.headers[i])])
      [] m.kind = "RequestBodies" ->
            List([i \in DOMAIN m.hashes |-> Data(m.hashes[i])])
      [] m.kind = "Bodies" ->
            List([i \in DOMAIN m.bodies |->
                    List([j \in DOMAIN m.bodies[i] |-> EncodeElement(m.bodies[i][j])])])

\* impl Encodable for Message: a list of two, the message id and the body.
rlp_append(m) == List(<<Data(ToBytes(MessageId(m))), EncodeBody(m)>>)

\* Mutant: a list of at least n items passes the length check.
ArityAtLeast(message, n) == Len(message.items) >= n

\* message.item_count()? != n
ArityIs(message, n) == Len(message.items) = n

DecodeBodies(item) ==
    AsList(item, [i \in DOMAIN item.items |-> DecodeElement(item.items[i])])

\* The match on the message id in impl Decodable for Message.
DecodeBody(id, message) ==
    CASE id = MESSAGE_ID_STATUS ->
            IF ~message.list THEN Err("RlpExpectedToBeList")
            ELSE IF ~ArityIs(message, 3) THEN Err("RlpIncorrectListLen")
            ELSE LET total_score == DecodeUint(message.items[1], 32)
                     best_hash == DecodeH256(message.items[2])
                     genesis_hash == DecodeH256(message.items[3])
                 IN  IF ~total_score.ok THEN total_score
                     ELSE IF ~best_hash.ok THEN best_hash
                     ELSE IF ~genesis_hash.ok THEN genesis_hash
                     ELSE Ok([kind |-> "Status", total_score |-> total_score.value,
                              best_hash |-> best_hash.value,
                              genesis_hash |-> genesis_hash.value])
      [] id = MESSAGE_ID_REQUEST_HEADERS ->
            IF ~message.list THEN Err("RlpExpectedToBeList")
            ELSE IF ~ArityIs(message, 2) THEN Err("RlpIncorrectListLen")
            ELSE LET start_number == DecodeUint(message.items[1], 8)
                     max_count == DecodeUint(message.items[2], 8)
                 IN  IF ~start_number.ok THEN start_number
                     ELSE IF ~max_count.ok THEN max_count
                     ELSE Ok([kind |-> "RequestHeaders", start_number |-> start_number.value,
                              max_count |-> max_count.value])
      [] id = MESSAGE_ID_HEADERS ->
            LET headers == AsList(message, [i \in DOMAIN message.items |->
                                                DecodeElement(message.items[i])])
            IN  IF ~headers.ok THEN headers
                ELSE Ok([kind |-> "Headers", headers |-> headers.value])
      [] id = MESSAGE_ID_REQUEST_BODIES ->
            LET hashes == AsList(message, [i \in DOMAIN message.items |->
                                               DecodeH256(message.items[i])])
            IN  IF ~hashes.ok THEN hashes
                ELSE Ok([kind |-> "RequestBodies", hashes |-> hashes.value])
      [] id = MESSAGE_ID_BODIES ->
            LET bodies == AsList(message, [i \in DOMAIN message.items |->
                                               DecodeBodies(message.items[i])])
            IN  IF ~bodies.ok THEN bodies
                ELSE Ok([kind |-> "Bodies", bodies |-> bodies.value])
      [] OTHER -> Err("Unknown message id detected")

\* impl Decodable for Message
decode(rlp) ==
    IF ~rlp.list THEN Err("RlpExpectedToBeList")
    ELSE IF Len(rlp.items) # 2 THEN Err("RlpIncorrectListLen")
    ELSE LET id == DecodeUint(rlp.items[1], 1)
         IN  IF ~id.ok THEN id ELSE DecodeBody(id.value, rlp.items[2])

\* The messages a node sends: lists of up to MaxList elements.
SeqsUpTo(S, n) == UNION {[1..k -> S] : k \in 0..n}

Hash(b) == [i \in 1..32 |-> b]

Hashes == {Hash(0), Hash(255)}

Scores == {0, 1, 256}

BlockNumbers == {0, 100, 256}

Elements == {0, 1}

Messages ==
    [kind : {"Status"}, total_score : Scores, best_hash : Hashes, genesis_hash : Hashes]
    \cup [kind : {"RequestHeaders"}, start_number : BlockNumbers, max_count : BlockNumbers]
    \cup [kind : {"Headers"}, headers : SeqsUpTo(Elements, MaxList)]
    \cup [kind : {"RequestBodies"}, hashes : SeqsUpTo(Hashes, MaxList)]
    \cup [kind : {"Bodies"}, bodies : SeqsUpTo(SeqsUpTo(Elements, MaxList), MaxList)]

\* The items a peer may send: a list of two made of an id up to MaxId and a body of
\* up to MaxArity fields, and lists of another length.
WireIds == {Data(ToBytes(i)) : i \in 0..MaxId}

WireBodies == {List(b) : b \in SeqsUpTo({Data(<<1>>), Data(Hash(0))}, MaxArity)}

Wires ==
    {List(<<id, body>>) : id \in WireIds, body \in WireBodies}
    \cup {List(items) : items \in {<<>>} \cup {<<id>> : id \in WireIds}}
    \cup {List(<<id, List(<<>>), List(<<>>)>>) : id \in WireIds}

\* message.rlp_bytes(): a message is encoded and put on the wire.
Encode(m) ==
    /\ sent' = m
    /\ wire' = rlp_append(m)
    /\ received' = NoValue
    /\ UNCHANGED <<poolstate, pc, ret, identity>>

\* An item arrives from a peer.
Receive(w) ==
    /\ sent' = NoValue
    /\ wire' = w
    /\ received' = NoValue
    /\ UNCHANGED <<poolstate, pc, ret, identity>>

\* rlp::decode of the item on the wire.
Decode ==
    /\ wire # NoValue
    /\ received = NoValue
    /\ received' = decode(wire)
    /\ UNCHANGED <<poolstate, pc, ret, identity, sent, wire>>

NextCodec ==
    \/ \E m \in Messages : Encode(m)
    \/ \E w \in Wires : Receive(w)
    \/ Decode

SpecCodec == Init /\ [][NextCodec]_vars

\* ------------------------------------------------------------------ properties
\* A thread is inside an admission's critical section: between taking the write
\* guard and returning.
InAdmission(t) == pc[t] \in {"verify", "add", "collected", "own_done"}

Entries == transaction_queue.entries

IsPrefix(s, full) == Len(s) <= Len(full) /\ s = SubSeq(full, 1, Len(s))

\* C1: admissions are mutually exclusive critical sections: a thread inside an
\* import_external batch or an import_own call holds the write lock alone, from
\* before its first validation until after its last add, and no second thread is
\* inside an admission at the same time.
C1_AdmissionsSerialized ==
    \A t \in Threads :
        InAdmission(t) =>
            /\ queue_lock.writer = t
            /\ queue_lock.readers = {}
            /\ \A u \in Threads \ {t} : ~InAdmission(u)

\* A thread stands between the validation and the add of its batch's second
\* transaction while it holds the lock.
C1_Witness ==
    \E t \in Threads :
        /\ pc[t] = "add"
        /\ Len(results[t]) = 1
        /\ default_origin[t] = "External"
        /\ queue_lock.writer = t

\* What the closure can return for a transaction, from the transaction alone.
OutcomeOf(tx, r) ==
    /\ r.hash = tx
    /\ tx.flaw = "basic" => ~r.ok /\ r.value = "BasicVerificationFailed"
    /\ tx.flaw = "unordered" => ~r.ok /\ r.value = "InvalidSignature"
    /\ tx.flaw = "machine" => ~r.ok /\ r.value = "MachineVerificationFailed"
    /\ tx.flaw = "none" =>
          IF r.ok THEN r.value \in {"Current", "Future"}
          ELSE r.value \in {"AlreadyImported", "TooCheapToReplace", "LimitReached",
                            "InsufficientBalance", "InsufficientFee"}

\* C2: when import_external has collected its results, there are exactly as many
\* as input transactions and the i-th result is the outcome of the i-th input.
C2_BatchResultCardinality ==
    \A t \in Threads :
        pc[t] = "collected" /\ default_origin[t] = "External" =>
            /\ Len(results[t]) = batch_len[t]
            /\ Len(transactions[t]) = batch_len[t]
            /\ \A i \in 1..batch_len[t] : OutcomeOf(transactions[t][i], results[t][i])

\* A batch of two different transactions, one accepted and one rejected, is complete.
C2_Witness ==
    \E t \in Threads :
        /\ pc[t] = "collected"
        /\ default_origin[t] = "External"
        /\ batch_len[t] = 2
        /\ transactions[t][1] # transactions[t][2]
        /\ results[t][1].ok
        /\ ~results[t][2].ok

\* C3: a rejection is that transaction's error result and does not end the batch:
\* every transaction of the batch gets validated, whatever happened before it,
\* and one that passes validation is handed to the queue.
C3_RejectionDoesNotAbortBatch ==
    \A t \in Threads :
        pc[t] = "collected" =>
            /\ Len(results[t]) = batch_len[t]
            /\ \A i \in 1..Len(results[t]) :
                  LET r == results[t][i]
                  IN  /\ r.calls # <<>>
                      /\ r.calls[1] = "transaction_block"
                      /\ (r.hash.flaw = "none" /\ r.value # "AlreadyImported")
                            => r.calls[Len(r.calls)] = "queue_add"
                      /\ r.ok => r.calls[Len(r.calls)] = "queue_add"

\* The first transaction of a batch was rejected and the second was admitted.
C3_Witness ==
    \E t \in Threads :
        /\ pc[t] = "collected"
        /\ batch_len[t] = 2
        /\ ~results[t][1].ok
        /\ results[t][2].ok
        /\ \E i \in DOMAIN Entries : Entries[i].tx = results[t][2].hash

\* C4: a transaction the chain already includes is answered AlreadyImported by the
\* first check, whatever its fee and whatever the queue holds, before any engine
\* verification or queue add.
C4_AlreadyImportedFirst ==
    [][\A t \in Threads, tx \in Transactions :
          (VerifyStep(t, tx) /\ transaction_block(chain, tx)) =>
              /\ results'[t] =
                    Append(results[t],
                           [hash |-> tx, ok |-> FALSE, value |-> "AlreadyImported",
                            header |-> best_block_header[t],
                            calls |-> <<"transaction_block">>])
              /\ pc'[t] # "add"
              /\ transaction_queue' = transaction_queue]_vars

\* An included transaction was resubmitted while the queue holds an entry, and
\* was answered.
C4_Witness ==
    \E t \in Threads :
        /\ results[t] # <<>>
        /\ results[t][Len(results[t])].value = "AlreadyImported"
        /\ transaction_block(chain, results[t][Len(results[t])].hash)
        /\ Entries # <<>>

\* The collaborator calls a transaction of the given flaw gets when it is not
\* already imported.
StageOf(tx) ==
    CASE tx.flaw = "basic" -> 2
      [] tx.flaw = "unordered" -> 3
      [] tx.flaw = "machine" -> 4
      [] tx.flaw = "none" -> 6

ValidationOrdered(r) ==
    /\ IsPrefix(r.calls, AllCalls)
    /\ r.calls # <<>>
    /\ IF r.value = "AlreadyImported" THEN Len(r.calls) = 1
       ELSE Len(r.calls) = StageOf(r.hash)
    /\ Len(r.calls) < 6 => ~r.ok

\* C5: the validation steps run in the order already-included check, basic,
\* unordered, machine verification, each only after the earlier ones passed; the
\* queue add comes only after all four passed; a step that collects a validation
\* rejection leaves the queue unchanged.
C5_ValidationOrder ==
    /\ [](\A t \in Threads :
            /\ \A i \in DOMAIN results[t] : ValidationOrdered(results[t][i])
            /\ pc[t] = "add" =>
                  /\ calls[t] = SubSeq(AllCalls, 1, 4)
                  /\ transactions[t][Len(transactions[t])].flaw = "none")
    /\ [][\A t \in Threads :
            (/\ Len(results'[t]) = Len(results[t]) + 1
             /\ Len(results'[t][Len(results'[t])].calls) < 6)
                => transaction_queue' = transaction_queue]_vars

\* A transaction was rejected by the machine verification, after the three earlier
\* steps, while the queue holds an entry.
C5_Witness ==
    \E t \in Threads :
        /\ results[t] # <<>>
        /\ results[t][Len(results[t])].value = "MachineVerificationFailed"
        /\ Entries # <<>>

\* C6: a read-only query holds the read guard only while no writer holds the
\* queue: no admission is in progress, and the value the query computed is that of
\* the queue as it stands, so never of the middle of a batch.
C6_QueriesExcludeWriters ==
    \A t \in Threads :
        pc[t] = "read_done" =>
            /\ t \in queue_lock.readers
            /\ queue_lock.writer = NoThread
            /\ \A u \in Threads : ~InAdmission(u)
            /\ ret[t].value = QueryValue(ret[t].kind, transaction_queue)

\* Two queries hold the read guard at the same time over a non-empty queue.
C6_Witness ==
    /\ Cardinality(queue_lock.readers) = 2
    /\ \A t \in Threads : pc[t] = "read_done"
    /\ Entries # <<>>

TxsOf(entries) == {entries[i].tx : i \in DOMAIN entries}

\* C7: the queue never holds more entries than its limit, and set_limit leaves the
\* highest-priority entries, as many as the new limit allows.
C7_CapacityBound ==
    /\ [](Len(Entries) <= transaction_queue.limit)
    /\ [][\A t \in Threads, limit \in 0..MaxLimit :
            set_transactions_limit(t, limit) =>
                LET after == transaction_queue'.entries
                IN  /\ transaction_queue'.limit = limit
                    /\ Len(after) = IF Len(Entries) < limit THEN Len(Entries) ELSE limit
                    /\ TxsOf(after) \subseteq TxsOf(Entries)
                    /\ \A gone \in TxsOf(Entries) \ TxsOf(after), kept \in TxsOf(after) :
                          gone.fee <= kept.fee]_vars

\* The queue is full at a limit below the largest one.
C7_Witness ==
    /\ transaction_queue.limit = 1
    /\ Len(Entries) = 1
    /\ \A t \in Threads : pc[t] = "idle"

NonceOrdered(txs) ==
    \A i, j \in DOMAIN txs :
        (i < j /\ txs[i].sender = txs[j].sender) => txs[i].nonce < txs[j].nonce

\* C9: in every state the sequence top_transactions yields, and so every value
\* ready_transactions returns, has each sender's transactions in ascending nonce
\* order: never nonce k+1 before nonce k.
C9_NonceContiguity ==
    /\ NonceOrdered(QueueTopTransactions(transaction_queue))
    /\ \A t \in Threads :
          (pc[t] = "read_done" /\ ret[t].kind = "ready_transactions")
              => NonceOrdered(ret[t].value.Ready)

\* ready_transactions returned a sender's nonce 0 and nonce 1, the higher nonce
\* carrying the higher fee.
C9_Witness ==
    \E t \in Threads :
        /\ pc[t] = "read_done"
        /\ ret[t].kind = "ready_transactions"
        /\ \E i, j \in DOMAIN ret[t].value.Ready :
              /\ ret[t].value.Ready[i].sender = ret[t].value.Ready[j].sender
              /\ ret[t].value.Ready[i].nonce + 1 = ret[t].value.Ready[j].nonce
              /\ ret[t].value.Ready[i].fee < ret[t].value.Ready[j].fee

\* C10: an entry is Pending exactly when its nonce is the sender's on-chain nonce
\* plus the number of contiguous lower nonces of that sender held in the queue.
C10_PartitionInvariant ==
    \A i \in DOMAIN Entries :
        Entries[i].partition = "Pending" <=>
            Executable(Entries, Entries[i].tx.sender,
                       latest_nonce(chain, Entries[i].tx.sender), Entries[i].tx.nonce)

\* The entries an add removed other than the one it replaced.
EvictedBy(tx, before, after) ==
    {e \in TxsOf(before) \ TxsOf(after) : ~(e.sender = tx.sender /\ e.nonce = tx.nonce)}

\* The documented scenario: limit 2, minimal fee 0, and (A, 0, fee 5), (A, 1, fee 3),
\* (B, 0, fee 10) admitted in that order by accounts that can pay.
ScenarioTx(sender, nonce, fee) ==
    [sender |-> sender, nonce |-> nonce, fee |-> fee, flaw |-> "none"]

ScenarioEvictsCheapest ==
    LET rich == [nonce |-> 0, balance |-> 10]
        a0 == ScenarioTx("A", 0, 5)
        a1 == ScenarioTx("A", 1, 3)
        b0 == ScenarioTx("B", 0, 10)
        q0 == [entries |-> <<>>, limit |-> 2, minimal_fee |-> 0]
        r1 == QueueAdd(q0, a0, "External", 0, rich)
        r2 == QueueAdd(r1.queue, a1, "External", 0, rich)
        r3 == QueueAdd(r2.queue, b0, "External", 0, rich)
    IN  /\ r1.result.ok /\ r2.result.ok /\ r3.result.ok
        /\ TxsOf(r2.queue.entries) = {a0, a1}
        /\ TxsOf(r3.queue.entries) = {a0, b0}
        /\ QueueTopTransactions(r3.queue) = <<b0, a0>>

\* C11: when an add would take the queue over its limit, the entry evicted is an
\* already held one of the lowest fee, the oldest of them if several share that
\* fee; the incoming transaction is answered LimitReached only when the queue is
\* at its limit and no held entry has a lower fee than it (it is the last in
\* the order fee descending, insertion ascending); an add that does not take
\* the queue over its limit evicts nothing; and the documented scenario ends
\* with top_transactions = [(B,0,10), (A,0,5)].
C11_EvictionPolicy ==
    /\ [](ScenarioEvictsCheapest)
    /\ [][\A t \in Threads :
            AddStep(t) =>
                LET tx == transactions[t][Len(transactions[t])]
                    r == results'[t][Len(results'[t])]
                    after == transaction_queue'.entries
                    gone == EvictedBy(tx, Entries, after)
                    overflow == /\ HeldAt(Entries, tx) = {}
                                /\ Len(Entries) >= transaction_queue.limit
                IN  /\ (r.ok /\ overflow) =>
                          /\ tx \in TxsOf(after)
                          /\ Cardinality(gone) = 1
                          /\ \A e \in gone :
                                /\ \A kept \in TxsOf(after) : e.fee <= kept.fee
                                /\ \A i, j \in DOMAIN Entries :
                                      (Entries[j].tx = e /\ i < j)
                                          => Entries[i].tx.fee > e.fee
                    /\ (r.ok /\ ~overflow) => gone = {}
                    /\ r.value = "LimitReached" =>
                          /\ ~r.ok
                          /\ Len(Entries) >= transaction_queue.limit
                          /\ \A e \in TxsOf(Entries) : tx.fee <= e.fee
                          /\ transaction_queue' = transaction_queue]_vars

\* A batch's first admitted transaction, the cheapest of a full queue, was evicted
\* by the admission of the batch's second one, which the queue now holds beside
\* an older entry.
C11_Witness ==
    \E t \in Threads :
        /\ pc[t] = "collected"
        /\ Len(inserted[t]) = 2
        /\ HeldAt(Entries, inserted[t][1]) = {}
        /\ inserted[t][2] \in TxsOf(Entries)
        /\ inserted[t][1].fee < inserted[t][2].fee
        /\ Len(Entries) = 2
        /\ transaction_queue.limit = 2

C13_NoIncludedEntry ==
    \A i \in DOMAIN Entries : ~transaction_block(chain, Entries[i].tx)

\* C14: set_engine_signer changes the engine's signer only when seals_internally
\* answers that the engine seals internally; for the answers "does not seal
\* internally" and "no answer" the signer is left as it was.
C14_SignerOnlyWhenSealing ==
    [][\A t \in Threads, address \in Senders :
          (set_engine_signer(t, address) /\ seals_internally # "Some(true)")
              => engine_signer' = engine_signer]_vars

\* The locks of the miner a thread holds.
HeldLocks(t) ==
    {l \in {"transaction_queue"} : queue_lock.writer = t \/ t \in queue_lock.readers}
    \cup {l \in {"author"} : author_lock.writer = t \/ t \in author_lock.readers}
    \cup {l \in {"extra_data"} : extra_data_lock.writer = t \/ t \in extra_data_lock.readers}

\* C15: a thread never holds two of the miner's three locks together, so every
\* acquisition is made by a thread that holds none and no lock-order cycle can
\* form; a cell's lock is held exactly inside the cell's own operation; and an
\* idle thread can run author, set_author, extra_data and set_extra_data to
\* completion whenever the cell's own lock allows it, whoever holds the queue's lock.
C15_IdentityLocksIndependent ==
    \A t \in Threads :
        /\ Cardinality(HeldLocks(t)) <= 1
        /\ "author" \in HeldLocks(t) <=> pc[t] \in {"author_read", "author_write"}
        /\ "extra_data" \in HeldLocks(t) <=> pc[t] \in {"extra_data_read", "extra_data_write"}
        /\ "transaction_queue" \in HeldLocks(t) <=> (InAdmission(t) \/ pc[t] = "read_done")
        /\ pc[t] = "idle" =>
              /\ author_lock.writer = NoThread => ENABLED read_author(t)
              /\ author_lock = FreeLock => ENABLED set_author(t, "A")
              /\ extra_data_lock.writer = NoThread => ENABLED read_extra_data(t)
              /\ extra_data_lock = FreeLock => ENABLED set_extra_data(t, <<>>)
        /\ pc[t] \in CellPositions => ENABLED ReleaseCell(t)

\* While one thread is between two transactions of its batch, holding the queue's
\* write lock, the other has written the author and is reading the extra data.
C15_Witness ==
    \E t, u \in Threads :
        /\ pc[t] = "verify"
        /\ Len(results[t]) = 1
        /\ queue_lock.writer = t
        /\ author # NoAddress
        /\ pc[u] = "extra_data_read"
        /\ u \in extra_data_lock.readers

\* C16: whatever message is encoded, the item written is a list of two whose first
\* item is the message's id, 1 to 5 by kind, and decoding that item returns the
\* very message: for every kind, with empty lists and empty inner lists as well.
C16_CodecRoundTrip ==
    sent # NoValue =>
        /\ wire.list
        /\ Len(wire.items) = 2
        /\ wire.items[1] =
              Data(<<CASE sent.kind = "Status" -> 1
                       [] sent.kind = "RequestHeaders" -> 2
                       [] sent.kind = "Headers" -> 3
                       [] sent.kind = "RequestBodies" -> 4
                       [] sent.kind = "Bodies" -> 5>>)
        /\ received # NoValue => (received.ok /\ received.value = sent)

\* A Bodies message of an empty body and a body of two transactions came back.
C16_Witness ==
    /\ sent # NoValue
    /\ sent.kind = "Bodies"
    /\ Len(sent.bodies) = 2
    /\ sent.bodies[1] = <<>>
    /\ Len(sent.bodies[2]) = 2
    /\ received # NoValue
    /\ received.ok

\* The id of a received list of two whose first item is one byte or none.
WireId(w) == FromBytes(w.items[1].bytes)

\* C17: decoding an item received from a peer fails with the incorrect-list-length
\* error when the outer list has not two items, when the id is 1 (Status) and the
\* body has not three, and when the id is 2 (RequestHeaders) and the body has not
\* two; and with the custom error "Unknown message id detected" when the id is
\* none of 1 to 5.
C17_DecodeErrors ==
    (sent = NoValue /\ received # NoValue) =>
        /\ Len(wire.items) # 2 =>
              (~received.ok /\ received.value = "RlpIncorrectListLen")
        /\ Len(wire.items) = 2 =>
              /\ WireId(wire) \notin 1..5 =>
                    (~received.ok /\ received.value = "Unknown message id detected")
              /\ (WireId(wire) = 1 /\ Len(wire.items[2].items) # 3) =>
                    (~received.ok /\ received.value = "RlpIncorrectListLen")
              /\ (WireId(wire) = 2 /\ Len(wire.items[2].items) # 2) =>
                    (~received.ok /\ received.value = "RlpIncorrectListLen")

\* A Status message of four fields was received and refused for its length.
C17_Witness ==
    /\ sent = NoValue
    /\ received # NoValue
    /\ Len(wire.items) = 2
    /\ WireId(wire) = 1
    /\ Len(wire.items[2].items) = 4
    /\ ~received.ok
    /\ received.value = "RlpIncorrectListLen"

HoldsQueue(t) == queue_lock.writer = t \/ t \in queue_lock.readers

\* C18: an operation takes the queue's lock once, at its start, from a thread that
\* holds nothing, and gives it up exactly when it returns; so, the collaborators'
\* calls returning and the lock being fair, every call returns and, as long as a
\* call is outstanding, some thread can move.
C18_CallsReturn ==
    /\ [](\A t \in Threads :
            /\ (pc[t] = "idle" \/ Blocked(t)) => ~HoldsQueue(t)
            /\ ~(queue_lock.writer = t /\ t \in queue_lock.readers))
    /\ [][\A t \in Threads :
            /\ (~HoldsQueue(t) /\ HoldsQueue(t)') => Blocked(t)
            /\ (HoldsQueue(t) /\ ~HoldsQueue(t)') => pc'[t] = "idle"
            /\ (HoldsQueue(t) /\ HoldsQueue(t)') =>
                  /\ (queue_lock'.writer = t) = (queue_lock.writer = t)
                  /\ ~Blocked(t)']_vars
    /\ []((\E t \in Threads : pc[t] # "idle")
            => \E t \in Threads : ENABLED (Acquire(t) \/ Proceed(t)))
    /\ \A t \in Threads : (pc[t] # "idle") ~> (pc[t] = "idle")

\* One thread is blocked in write() while the other, inside import_own, holds the
\* write lock with its result popped and the status about to be traced.
C18_Witness ==
    \E t, u \in Threads :
        /\ pc[t] = "wait_write"
        /\ pc[u] = "own_done"
        /\ queue_lock.writer = u

\* The result of a transaction that reached the queue's add.
IsAddResult(r) == Len(r.calls) = 6

\* C19: import_own_transaction never panics: its batch of one transaction yields
\* exactly one result, whatever validation and the queue's add answer; the value
\* it returns is that result, unchanged; and the add, when reached, was given
\* the origin Local.
C19_OwnImportOneResult ==
    \A t \in Threads :
        /\ pc[t] # "panicked"
        /\ (default_origin[t] = "Local" /\ pc[t] \in {"collected", "own_done"}) =>
              /\ batch_len[t] = 1
              /\ Len(results[t]) = 1
              /\ OutcomeOf(transactions[t][1], results[t][1])
              /\ IsAddResult(results[t][1]) => results[t][1].origin = "Local"
        /\ pc[t] = "own_done" =>
              import[t] = [kind |-> "result", ok |-> results[t][1].ok,
                           value |-> results[t][1].value]
        /\ \A i \in DOMAIN results[t] :
              IsAddResult(results[t][i]) => results[t][i].origin = default_origin[t]

\* An own transaction was turned away by the queue's add, and import_own is about to
\* return that error.
C19_Witness ==
    \E t \in Threads :
        /\ pc[t] = "own_done"
        /\ IsAddResult(results[t][1])
        /\ ~import[t].ok
        /\ import[t].value = "TooCheapToReplace"

\* C20: the best block header and the insertion time are read when the batch
\* starts and stay the same to its end, whatever the chain does meanwhile: every
\* result of the batch was verified against that header and every add was given
\* that insertion time; whereas each add is given the sender's nonce and balance
\* as the chain has them at that add.
C20_SnapshotPerBatch ==
    /\ [](\A t \in Threads :
            InAdmission(t) =>
                /\ best_block_header[t] <= best_block_number(chain)
                /\ insertion_time[t] <= best_block_number(chain)
                /\ \A i \in DOMAIN results[t] :
                      /\ results[t][i].header = best_block_header[t]
                      /\ IsAddResult(results[t][i]) =>
                            results[t][i].time = insertion_time[t])
    /\ [][\A t \in Threads :
            /\ (~InAdmission(t) /\ InAdmission(t)') =>
                  /\ best_block_header'[t] = best_block_number(chain)
                  /\ insertion_time'[t] = best_block_number(chain)
            /\ (InAdmission(t) /\ InAdmission(t)') =>
                  /\ best_block_header'[t] = best_block_header[t]
                  /\ insertion_time'[t] = insertion_time[t]
            /\ AddStep(t) =>
                  LET tx == transactions[t][Len(transactions[t])]
                      now == [nonce |-> latest_nonce(chain, tx.sender),
                              balance |-> latest_balance(chain, tx.sender)]
                      r == QueueAdd(transaction_queue, tx, default_origin[t],
                                    best_block_header[t], now)
                      last == results'[t][Len(results'[t])]
                  IN  /\ transaction_queue' = r.queue
                      /\ last.ok = r.result.ok
                      /\ last.value = r.result.value]_vars

\* The chain advanced in the middle of a batch: both adds carry the header and the
\* insertion time of the batch's start, and the second, a nonce 1 with no nonce 0
\* in the queue, is Current by the nonce the chain has now.
C20_Witness ==
    \E t \in Threads :
        /\ pc[t] = "collected"
        /\ batch_len[t] = 2
        /\ best_block_header[t] < best_block_number(chain)
        /\ IsAddResult(results[t][1]) /\ IsAddResult(results[t][2])
        /\ results[t][1].ok
        /\ results[t][2].hash.nonce = 1
        /\ results[t][2].value = "Current"
        /\ \A i \in DOMAIN Entries :
              Entries[i].tx.sender = results[t][2].hash.sender => Entries[i].tx.nonce = 1

====
